---- MODULE Spec2Model ----
\* The two WordpressConnector modules of the repository, as one state machine:
\*   "pageNumber"     src/unnamed/part_000  getPages(page, correlationId)
\*   "linkFollowing"  src/unnamed/part_001  loop(url) / getPages(correlationId)
\* A traversal is one entry call from outside the connector together with the
\* fetches and promises that follow from it.
EXTENDS Integers, Sequences, FiniteSets, TLC

VARIABLES connector, upstream, concatenatedResponse, items, results, trav, tpl

vars == <<connector, upstream, concatenatedResponse, items, results, trav, tpl>>

\* ---------------------------------------------------------------- bounds
MaxUrl == 1        \* the upstream serves the URLs 0..MaxUrl
MaxItems == 1      \* a page holds 0..MaxItems items
MaxCalls == 2      \* entry calls made on the connector
MaxFetch == 3      \* fetches one link-following traversal may issue
MaxPartials == 3   \* files in the _partials directory

\* the page the link-following getPages starts from ('...wp/v2/all?page=0')
SeedUrl == 0

Url == 0..MaxUrl

Connectors == {"pageNumber", "linkFollowing"}

\* what requestify rejects with: timeout / connection failure, non-2xx
Errors == {"NetworkError", "HttpError"}

\* ------------------------------------------------------- upstream bodies
\* an href that is no usable URL (not absolute, not a URL at all)
BadHref == 0 - 1

\* response.getBody(): null, or an object holding n item values and, when
\* hasLinks, a "_links" value, which carries a "next" href when hasNext.
NullBody == [isNull |-> TRUE, n |-> 0, hasLinks |-> FALSE, hasNext |-> FALSE, next |-> 0]

Bodies ==
    {NullBody} \cup
    {[isNull |-> FALSE, n |-> k, hasLinks |-> FALSE, hasNext |-> FALSE, next |-> 0] :
        k \in 0..MaxItems} \cup
    {[isNull |-> FALSE, n |-> k, hasLinks |-> TRUE, hasNext |-> FALSE, next |-> 0] :
        k \in 0..MaxItems} \cup
    {[isNull |-> FALSE, n |-> k, hasLinks |-> TRUE, hasNext |-> TRUE, next |-> u] :
        k \in 0..MaxItems, u \in Url \cup {BadHref}}

\* the page-number API serves bare item lists
PlainBodies == {b \in Bodies : ~b.hasLinks}

\* the body served for page / url u; past the last page the upstream has nothing
Body(u) == IF u \in Url THEN upstream[u] ELSE NullBody

\* the k-th item of the page at u, and the "_links" value of that page
ItemOf(u, k) == 10 * (u + 1) + k
LinksOf(u) == 0 - (u + 1)

ItemsOf(u) == [k \in 1..Body(u).n |-> ItemOf(u, k)]

\* _.values(r): every own value of the body, the "_links" value included
Values(u) ==
    IF Body(u).isNull THEN << >>
    ELSE IF Body(u).hasLinks THEN Append(ItemsOf(u), LinksOf(u))
    ELSE ItemsOf(u)

\* ------------------------------------------------------------- promises
NoValue == [kind |-> "none", arr |-> << >>, err |-> ""]
Undefined == [kind |-> "undefined", arr |-> << >>, err |-> ""]
ArrayValue(a) == [kind |-> "array", arr |-> a, err |-> ""]
ErrorValue(e) == [kind |-> "error", arr |-> << >>, err |-> e]

Pending == [st |-> "pending", val |-> NoValue]
Resolved(v) == [st |-> "resolved", val |-> v]
Rejected(e) == [st |-> "rejected", val |-> ErrorValue(e)]
\* a loop promise whose handler returned Promise.try(..).then(log): it
\* resolves when that log callback has run
AwaitingThen == [st |-> "then", val |-> NoValue]

\* ----------------------------------------------------------- traversals
NewTraversal(entry, u) ==
    [entry |-> entry,
     fetched |-> <<u>>,
     inflight |-> TRUE,
     fetchErr |-> FALSE,
     handled |-> 0,
     promises |-> <<Pending>>,
     outer |-> Pending,
     cameBack |-> FALSE,
     cancelled |-> FALSE,
     during |-> {s \in 1..Len(trav) : trav[s].inflight}]

Last(s) == s[Len(s)]

SetLast(s, x) == [s EXCEPT ![Len(s)] = x]

\* the template service before render is called: nothing registered, no
\* file operation in flight. files: the partial files in the directory;
\* uses: the partials the template refers to.
IdleTemplate(files, uses) ==
    [pc |-> "idle",
     files |-> files,
     uses |-> uses,
     pendingReads |-> {},
     registered |-> {},
     partials |-> "none",
     thenQueued |-> FALSE,
     templateRead |-> "none",
     compiled |-> FALSE,
     registeredAtCompile |-> {},
     render |-> "none"]

Init ==
    /\ tpl = IdleTemplate(0, {})
    /\ connector \in Connectors
    /\ upstream \in [Url -> IF connector = "pageNumber" THEN PlainBodies ELSE Bodies]
    /\ concatenatedResponse = << >>
    /\ items = << >>
    /\ results = << >>
    /\ trav = << >>

\* ------------------------------------------- part_000: page-number variant
\* concatenatedResponse.concat(items): the new array is not stored
PN_concat(acc, its) == acc

\* response.getBody() === null
PN_isLast(u) == Body(u).isNull

\* page++
PN_nextPageSame(p) == p
PN_nextPage(p) == p + 1

\* getPages(page, correlationId) called from outside
PN_getPages(p) ==
    /\ connector = "pageNumber"
    /\ Len(trav) < MaxCalls
    /\ trav' = Append(trav, NewTraversal("getPages", p))
    /\ UNCHANGED <<tpl, connector, upstream, concatenatedResponse, items, results>>

\* the .then handler of requestify.get
PN_response(t) ==
    /\ connector = "pageNumber"
    /\ trav[t].inflight
    /\ LET u == Last(trav[t].fetched) IN
        IF PN_isLast(u)
        THEN /\ trav' = [trav EXCEPT
                    ![t].inflight = FALSE,
                    ![t].handled = @ + 1,
                    ![t].promises = SetLast(@, Resolved(ArrayValue(concatenatedResponse)))]
             /\ UNCHANGED <<items, concatenatedResponse>>
        ELSE /\ items' = ItemsOf(u)
             /\ concatenatedResponse' = PN_concat(concatenatedResponse, ItemsOf(u))
             /\ trav' = [trav EXCEPT
                    ![t].fetched = Append(@, PN_nextPage(u)),
                    ![t].handled = @ + 1,
                    ![t].promises = Append(@, Pending)]
    /\ UNCHANGED <<tpl, connector, upstream, results>>

\* the .catch handler of requestify.get
PN_error(t, e) ==
    /\ connector = "pageNumber"
    /\ trav[t].inflight
    /\ trav' = [trav EXCEPT
            ![t].inflight = FALSE,
            ![t].fetchErr = TRUE,
            ![t].handled = @ + 1,
            ![t].promises = SetLast(@, Rejected(e))]
    /\ UNCHANGED <<tpl, connector, upstream, concatenatedResponse, items, results>>

\* ---------------------------------------- part_001: link-following variant
\* r["_links"] && r["_links"]["next"]
LF_hasNextLinksOnly(u) == Body(u).hasLinks
LF_hasNext(u) == Body(u).hasLinks /\ Body(u).hasNext

\* self.results = self.results.concat(_.values(r))
LF_concatPrepend(acc, vals) == vals \o acc
LF_concatReplace(acc, vals) == vals
LF_concat(acc, vals) == acc \o vals

\* getPages(correlationId): the promise it returns is never settled
LF_getPages ==
    /\ connector = "linkFollowing"
    /\ Len(trav) < MaxCalls
    /\ trav' = Append(trav, NewTraversal("getPages", SeedUrl))
    /\ UNCHANGED <<tpl, connector, upstream, concatenatedResponse, items, results>>

\* loop(url) called from outside
LF_loop(u) ==
    /\ connector = "linkFollowing"
    /\ Len(trav) < MaxCalls
    /\ trav' = Append(trav, NewTraversal("loop", u))
    /\ UNCHANGED <<tpl, connector, upstream, concatenatedResponse, items, results>>

\* the .then handler of requestify.get; a request to an unusable href gets
\* no response
LF_response(t) ==
    /\ connector = "linkFollowing"
    /\ trav[t].inflight
    /\ Last(trav[t].fetched) \in Url
    /\ LET u == Last(trav[t].fetched)
           merged == LF_concat(results, Values(u))
       IN
        /\ results' = merged
        /\ IF Body(u).isNull
           THEN \* r["_links"] on null throws inside the handler
                trav' = [trav EXCEPT
                    ![t].inflight = FALSE,
                    ![t].handled = @ + 1,
                    ![t].promises = SetLast(@, Rejected("TypeError"))]
           ELSE IF LF_hasNext(u)
           THEN /\ Len(trav[t].fetched) < MaxFetch
                /\ trav' = [trav EXCEPT
                    ![t].fetched = Append(@, Body(u).next),
                    ![t].handled = @ + 1,
                    ![t].promises = Append(SetLast(@, AwaitingThen), Pending)]
           ELSE trav' = [trav EXCEPT
                    ![t].inflight = FALSE,
                    ![t].handled = @ + 1,
                    ![t].promises = SetLast(@, Resolved(ArrayValue(merged)))]
    /\ UNCHANGED <<tpl, connector, upstream, concatenatedResponse, items>>

\* the 'adding stuff' callback: runs once self.loop(next) has been called,
\* not once it has finished, and resolves the enclosing loop promise
LF_addingStuff(t, d) ==
    /\ connector = "linkFollowing"
    /\ d \in 1..Len(trav[t].promises)
    /\ trav[t].promises[d].st = "then"
    /\ trav' = [trav EXCEPT ![t].promises[d] = Resolved(Undefined)]
    /\ UNCHANGED <<tpl, connector, upstream, concatenatedResponse, items, results>>

\* the fetch fails: the loop promise of that call is rejected
LF_errorRetries(t, e) ==
    /\ connector = "linkFollowing"
    /\ trav[t].inflight
    /\ Len(trav[t].fetched) < MaxFetch
    /\ trav' = [trav EXCEPT
            ![t].fetched = Append(@, Last(@)),
            ![t].fetchErr = TRUE,
            ![t].handled = @ + 1,
            ![t].promises = Append(SetLast(@, Rejected(e)), Pending)]
    /\ UNCHANGED <<tpl, connector, upstream, concatenatedResponse, items, results>>

LF_error(t, e) ==
    /\ connector = "linkFollowing"
    /\ trav[t].inflight
    /\ trav' = [trav EXCEPT
            ![t].inflight = FALSE,
            ![t].fetchErr = TRUE,
            ![t].handled = @ + 1,
            ![t].promises = SetLast(@, Rejected(e))]
    /\ UNCHANGED <<tpl, connector, upstream, concatenatedResponse, items, results>>

\* the 'comes back' callback of getPages: logs, calls neither resolve nor reject
LF_comesBack(t) ==
    /\ connector = "linkFollowing"
    /\ trav[t].entry = "getPages"
    /\ trav[t].promises[1].st = "resolved"
    /\ ~trav[t].cameBack
    /\ trav' = [trav EXCEPT ![t].cameBack = TRUE]
    /\ UNCHANGED <<tpl, connector, upstream, concatenatedResponse, items, results>>

Next ==
    \/ \E p \in Url : PN_getPages(p)
    \/ \E t \in 1..Len(trav) : PN_response(t)
    \/ \E t \in 1..Len(trav), e \in Errors : PN_error(t, e)
    \/ LF_getPages
    \/ \E u \in Url : LF_loop(u)
    \/ \E t \in 1..Len(trav) : LF_response(t)
    \/ \E t \in 1..Len(trav), d \in 1..MaxFetch : LF_addingStuff(t, d)
    \/ \E t \in 1..Len(trav), e \in Errors : LF_error(t, e)
    \/ \E t \in 1..Len(trav) : LF_comesBack(t)

Spec == Init /\ [][Next]_vars

\* ------------------------------------------------------------ cancellation
\* The caller of a traversal in flight signals that it no longer wants the
\* result. Neither getPages nor loop takes a signal, and neither module turns
\* on bluebird's cancellation, so cancel() on the returned promise is the only
\* signal there is and it changes nothing in the connector.
Cancel(t) ==
    /\ trav[t].inflight
    /\ ~trav[t].cancelled
    /\ trav' = [trav EXCEPT ![t].cancelled = TRUE]
    /\ UNCHANGED <<tpl, connector, upstream, concatenatedResponse, items, results>>

NextCancel ==
    \/ Next
    \/ \E t \in 1..Len(trav) : Cancel(t)

SpecCancel == Init /\ [][NextCancel]_vars

\* ------------------------------------- services/template.service.js: render
\* render(): _registerHelpers runs to its end at once (a helper that cannot be
\* registered rejects), then _registerPartials starts fs.readdir
render(helpersOk) ==
    /\ tpl.pc = "idle"
    /\ tpl' = IF helpersOk
              THEN [tpl EXCEPT !.pc = "readdir", !.partials = "pending", !.render = "pending"]
              ELSE [tpl EXCEPT !.pc = "done", !.render = "error"]
    /\ UNCHANGED <<connector, upstream, concatenatedResponse, items, results, trav>>

\* _registerPartials, the fs.readdir callback: an error rejects; an empty
\* directory resolves; otherwise one fs.readFile per file is started
registerPartials_readdir(ok) ==
    /\ tpl.pc = "readdir"
    /\ tpl' = IF ~ok
              THEN [tpl EXCEPT !.pc = "done", !.partials = "rejected", !.render = "error"]
              ELSE IF tpl.files = 0
              THEN [tpl EXCEPT !.pc = "done", !.partials = "resolved", !.thenQueued = TRUE]
              ELSE [tpl EXCEPT !.pc = "done", !.pendingReads = 1..tpl.files]
    /\ UNCHANGED <<connector, upstream, concatenatedResponse, items, results, trav>>

\* the promise of _registerPartials is settled by the first callback that
\* calls resolve or reject; later calls change nothing
SettleWhenAllRead(now, left, ok) ==
    IF now # "pending" THEN now
    ELSE IF ~ok THEN "rejected"
    ELSE IF left = {} THEN "resolved"
    ELSE "pending"
SettleFirst(now, left, ok) ==
    IF now # "pending" THEN now
    ELSE IF ok THEN "resolved"
    ELSE "rejected"

\* _registerPartials, the fs.readFile callback of file f: on success the
\* partial is registered and resolve({}) is called; on error reject(error) is
\* called and registerPartial(name, undefined) throws
registerPartials_readFile(f, ok) ==
    /\ f \in tpl.pendingReads
    /\ LET left == tpl.pendingReads \ {f}
           settled == SettleFirst(tpl.partials, left, ok)
       IN tpl' = [tpl EXCEPT
            !.pendingReads = left,
            !.registered = IF ok THEN @ \cup {f} ELSE @,
            !.partials = settled,
            !.thenQueued = @ \/ (tpl.partials = "pending" /\ settled = "resolved"),
            !.render = IF tpl.partials = "pending" /\ settled = "rejected"
                       THEN "error" ELSE @]
    /\ UNCHANGED <<connector, upstream, concatenatedResponse, items, results, trav>>

\* render's .then(() => self._renderTemplate(..)): starts reading the template
renderTemplate ==
    /\ tpl.thenQueued
    /\ tpl' = [tpl EXCEPT !.thenQueued = FALSE, !.templateRead = "inflight"]
    /\ UNCHANGED <<connector, upstream, concatenatedResponse, items, results, trav>>

\* _renderTemplate, the fs.readFile callback: the template is compiled and run
\* against the partials registered at this moment, then minified; a partial the
\* template uses and does not find throws
renderTemplate_readFile(ok) ==
    /\ tpl.templateRead = "inflight"
    /\ tpl' = IF ~ok
              THEN [tpl EXCEPT !.templateRead = "done", !.render = "error"]
              ELSE [tpl EXCEPT
                    !.templateRead = "done",
                    !.compiled = TRUE,
                    !.registeredAtCompile = tpl.registered,
                    !.render = IF tpl.uses \subseteq tpl.registered
                               THEN "html" ELSE "error"]
    /\ UNCHANGED <<connector, upstream, concatenatedResponse, items, results, trav>>

InitTemplate ==
    /\ \E n \in 0..MaxPartials : \E u \in SUBSET (1..n) : tpl = IdleTemplate(n, u)
    /\ connector = "linkFollowing"
    /\ upstream = [u \in Url |-> NullBody]
    /\ concatenatedResponse = << >>
    /\ items = << >>
    /\ results = << >>
    /\ trav = << >>

NextTemplate ==
    \/ \E ok \in BOOLEAN : render(ok)
    \/ \E ok \in BOOLEAN : registerPartials_readdir(ok)
    \/ \E f \in 1..MaxPartials, ok \in BOOLEAN : registerPartials_readFile(f, ok)
    \/ renderTemplate
    \/ \E ok \in BOOLEAN : renderTemplate_readFile(ok)

SpecTemplate == InitTemplate /\ [][NextTemplate]_vars

\* ------------------------------------------------- reading the traversals
T == 1..Len(trav)

RECURSIVE HasDup(_)
HasDup(s) ==
    IF Len(s) < 2 THEN FALSE
    ELSE (\E i \in 2..Len(s) : s[i] = s[1]) \/ HasDup(Tail(s))

\* the fetches of t whose response has been handed to the .then handler
Received(t) ==
    Len(trav[t].fetched) - (IF trav[t].inflight \/ trav[t].fetchErr THEN 1 ELSE 0)

ReceivedPages(t) == SubSeq(trav[t].fetched, 1, Received(t))

RECURSIVE AllItems(_)
AllItems(us) == IF us = << >> THEN << >> ELSE ItemsOf(Head(us)) \o AllItems(Tail(us))

RECURSIVE AllValues(_)
AllValues(us) == IF us = << >> THEN << >> ELSE Values(Head(us)) \o AllValues(Tail(us))

Elems(s) == {s[i] : i \in 1..Len(s)}

\* t reached resolve(concatenatedResponse) / return self.results
Done(t) ==
    \E d \in 1..Len(trav[t].promises) :
        trav[t].promises[d].st = "resolved" /\ trav[t].promises[d].val.kind = "array"

\* the result set t held when it finished
Result(t) ==
    LET d == CHOOSE d \in 1..Len(trav[t].promises) :
                trav[t].promises[d].st = "resolved" /\ trav[t].promises[d].val.kind = "array"
    IN trav[t].promises[d].val.arr

\* the promise the entry call handed to its caller
CallerPromise(t) ==
    IF connector = "linkFollowing" /\ trav[t].entry = "getPages"
    THEN trav[t].outer
    ELSE trav[t].promises[1]

\* nothing of t is left to run: no fetch in flight, no callback queued
Quiescent(t) ==
    /\ ~trav[t].inflight
    /\ \A d \in 1..Len(trav[t].promises) : trav[t].promises[d].st # "then"
    /\ (connector = "linkFollowing" /\ trav[t].entry = "getPages"
            /\ trav[t].promises[1].st = "resolved") => trav[t].cameBack

\* t1 and t2 were in flight at the same time
Overlap(t1, t2) == t1 \in trav[t2].during \/ t2 \in trav[t1].during

\* the page at u tells the client that another page follows
NextIndication(u) ==
    IF connector = "pageNumber" THEN ~Body(u).isNull
    ELSE Body(u).hasLinks /\ Body(u).hasNext

\* ----------------------------------------------------------------- claims

\* C1: when a traversal over an acyclic chain finishes, the result set it holds
\* is the items of page 1, then page 2, ..., each page in its own order: nothing
\* dropped, no navigation entry added.
Cx_C1_ResultIsEveryItemInOrder ==
    \A t \in T :
        (Len(trav) = 1 /\ Done(t) /\ ~HasDup(trav[t].fetched))
            => Result(t) = AllItems(ReceivedPages(t))

\* C2: once a traversal whose fetches all succeeded has finished and nothing of
\* it is left to run, the promise its caller holds is resolved with the result set.
Cx_C2_CallerResolvedWithResult ==
    \A t \in T :
        (Done(t) /\ Quiescent(t))
            => CallerPromise(t) = Resolved(ArrayValue(Result(t)))

\* C3: once a fetch of a traversal has failed and nothing of it is left to run,
\* the promise its caller holds is rejected with that error.
Cx_C3_CallerRejectedWithError ==
    \A t \in T :
        (trav[t].fetchErr /\ Quiescent(t))
            => /\ CallerPromise(t).st = "rejected"
               /\ CallerPromise(t).val = Last(trav[t].promises).val

\* C4: of two traversals over disjoint chains that were in flight together and
\* have both finished, each holds as many entries as the pages of its own chain
\* gave it and no value of the other's chain.
Cx_C4_NoCrossContamination ==
    \A t1 \in T, t2 \in T :
        (t1 # t2 /\ Overlap(t1, t2) /\ Done(t1) /\ Done(t2)
            /\ Elems(trav[t1].fetched) \cap Elems(trav[t2].fetched) = {})
            => /\ Len(Result(t1)) = Len(AllValues(ReceivedPages(t1)))
               /\ Elems(Result(t1)) \cap Elems(AllValues(trav[t2].fetched)) = {}

\* C5: an invocation that runs with no other invocation in flight finishes with
\* nothing but values of the pages it fetched itself: nothing is left in the
\* accumulator from earlier invocations.
Cx_C5_StartsFromEmptyAccumulator ==
    \A t \in T :
        (Done(t) /\ trav[t].during = {} /\ \A s \in T : t \notin trav[s].during)
            => /\ Len(Result(t)) <= Len(AllValues(ReceivedPages(t)))
               /\ Elems(Result(t)) \subseteq Elems(AllValues(ReceivedPages(t)))

\* C6: a traversal finishes only on a page without next-page indication (no
\* next link, resp. a null body), and after receiving such a page it issues no
\* further fetch; a page without indication that the handler can read finishes it.
Thm_C6_DoneExactlyAtLastPage ==
    \A t \in T :
        /\ Done(t) =>
            /\ ~trav[t].inflight
            /\ Received(t) = Len(trav[t].fetched)
            /\ ~NextIndication(Last(trav[t].fetched))
        /\ \A i \in 1..Received(t) :
            ~NextIndication(trav[t].fetched[i]) =>
                /\ i = Len(trav[t].fetched)
                /\ ~trav[t].inflight
                /\ (connector = "pageNumber" \/ ~Body(trav[t].fetched[i]).isNull) => Done(t)

\* C6 witness: a traversal has finished on its second or later page
Wit_C6_DoneAfterSeveralPages ==
    \E t \in T : Done(t) /\ Received(t) >= 2

\* C7: a received page whose next-link is a URL this traversal already fetched
\* ends the traversal with CycleError and nothing is fetched after it.
Cx_C7_CycleStopsTraversal ==
    \A t \in T : \A i \in 1..Received(t) :
        (connector = "linkFollowing" /\ NextIndication(trav[t].fetched[i])
            /\ \E j \in 1..i : trav[t].fetched[j] = Body(trav[t].fetched[i]).next)
            => /\ Len(trav[t].fetched) = i
               /\ \E d \in 1..Len(trav[t].promises) :
                    trav[t].promises[d] = Rejected("CycleError")

\* C8: a first page whose next-link is the seed URL itself fails the traversal
\* with CycleError after that one fetch of the seed.
Cx_C8_SelfLinkedSeedFetchedOnce ==
    \A t \in T :
        (connector = "linkFollowing" /\ Received(t) >= 1
            /\ NextIndication(trav[t].fetched[1])
            /\ Body(trav[t].fetched[1]).next = trav[t].fetched[1])
            => /\ trav[t].fetched = <<trav[t].fetched[1]>>
               /\ trav[t].promises[1] = Rejected("CycleError")

\* C9: a seed response with no items and no next-page indication finishes the
\* traversal after that one fetch with the empty result set.
Cx_C9_EmptySeedGivesEmptyResult ==
    \A t \in T :
        (Received(t) >= 1 /\ ~NextIndication(trav[t].fetched[1])
            /\ Body(trav[t].fetched[1]).n = 0
            /\ (connector = "linkFollowing" => ~Body(trav[t].fetched[1]).isNull))
            => /\ Done(t)
               /\ Len(trav[t].fetched) = 1
               /\ Result(t) = << >>

\* C10: when the promise returned for the seed URL has settled, no fetch of
\* that traversal is in flight.
Cx_C10_SettlesOnlyWhenTerminal ==
    \A t \in T :
        trav[t].promises[1].st \in {"resolved", "rejected"} => ~trav[t].inflight

Cx_C12_MalformedLinkIsParseError ==
    \A t \in T : \A i \in 1..Received(t) :
        (connector = "linkFollowing"
            /\ Body(trav[t].fetched[i]).n >= 1
            /\ NextIndication(trav[t].fetched[i])
            /\ Body(trav[t].fetched[i]).next = BadHref)
            => /\ Len(trav[t].fetched) = i
               /\ ~Done(t)
               /\ CallerPromise(t) = Rejected("ParseError")

\* C13: once its caller has signalled cancellation, a traversal issues no
\* further fetch and its caller's promise is not resolved with a result set.
Cx_C13_CancelStopsTraversal ==
    [][\A t \in T :
        trav[t].cancelled =>
            /\ trav'[t].fetched = trav[t].fetched
            /\ (CallerPromise(t).st = "pending" =>
                    ~(CallerPromise(t)'.st = "resolved"
                        /\ CallerPromise(t)'.val.kind = "array"))]_vars

\* C14: once a fetch of a traversal has failed, that traversal issues no
\* request, runs no response handler and so appends nothing to the accumulator.
Thm_C14_NothingAfterFailedFetch ==
    [][\A t \in T :
        trav[t].fetchErr =>
            /\ trav'[t].fetched = trav[t].fetched
            /\ trav'[t].handled = trav[t].handled
            /\ ~trav'[t].inflight
            /\ Len(trav') = 1 =>
                (results' = results /\ concatenatedResponse' = concatenatedResponse)]_vars

\* C14 witness: a fetch has failed after an earlier page of the same
\* traversal was received and merged
Wit_C14_FailedAfterFirstPage ==
    \E t \in T :
        /\ trav[t].fetchErr /\ Received(t) >= 1
        /\ connector = "linkFollowing" => Len(results) >= 1

\* C15: a page-number traversal started at page p requests p, p+1, p+2, ... in
\* that order, each once; it requests nothing after the first null body, and
\* when it finishes the last page requested is the only one with a null body.
Thm_C15_PageNumbersAscendToFirstNull ==
    connector = "pageNumber" =>
        \A t \in T :
            /\ \A i \in 1..Len(trav[t].fetched) :
                trav[t].fetched[i] = trav[t].fetched[1] + (i - 1)
            /\ ~HasDup(trav[t].fetched)
            /\ \A i \in 1..Received(t) :
                Body(trav[t].fetched[i]).isNull => i = Len(trav[t].fetched)
            /\ Done(t) =>
                /\ Received(t) = Len(trav[t].fetched)
                /\ Body(Last(trav[t].fetched)).isNull

\* C15 witness: a page-number traversal has finished after requesting three pages
Wit_C15_ThreePagesRequested ==
    \E t \in T :
        /\ connector = "pageNumber"
        /\ Done(t)
        /\ Len(trav[t].fetched) = 3

\* C16: in the link-following connector every step leaves the accumulator's
\* previous contents as a prefix of its new contents: it is appended to, never
\* cleared or replaced, whatever loop steps and getPages calls happen.
Thm_C16_AccumulatorAppendOnly ==
    [][connector = "linkFollowing" =>
        /\ Len(results) <= Len(results')
        /\ SubSeq(results', 1, Len(results)) = results]_vars

\* C16 witness: two calls on the connector have both finished and the
\* accumulator holds what both appended
Wit_C16_TwoCallsAppended ==
    /\ connector = "linkFollowing"
    /\ Len(trav) = 2
    /\ \A t \in T : Done(t) /\ Values(trav[t].fetched[1]) # << >>
    /\ \E t \in T : trav[t].entry = "getPages"
    /\ results = AllValues(ReceivedPages(1)) \o AllValues(ReceivedPages(2))

\* C17: with two or more partial files, the template is compiled and rendered
\* only when every partial file has been read and registered.
Cx_C17_RenderAfterAllPartials ==
    (tpl.files >= 2 /\ tpl.compiled) =>
        /\ tpl.registeredAtCompile = 1..tpl.files
        /\ tpl.pendingReads = {}

====
